---- MODULE Spec2Model ----
(***************************************************************************)
(* Model of pypll: the PyPLL clock controller (pypll.py) on top of the     *)
(* adjtimex wrapper (adjtimex/adjtimex.py).                                *)
(*                                                                         *)
(* Numbers.  Offsets and thresholds are Python floats in seconds.  They    *)
(* are modelled as exact values counted in units of 1/UnitsPerUsec         *)
(* microsecond, so that offsets which are not a whole number of            *)
(* microseconds exist and round() and int() differ.  Speed factors are     *)
(* floats close to 1.0; they are modelled as 1 + k/(10000*FactorRes).      *)
(* Binary floating point error is not modelled.                            *)
(***************************************************************************)
EXTENDS Integers, Sequences, FiniteSets, TLC

(***************************************************************************)
(* Bounds and sample sets of the inputs.                                   *)
(***************************************************************************)
MaxSec == 1
\* resolution of the offsets: units per microsecond
UnitsPerUsec == 10
\* resolution of the speed factors: units per 1/10000
FactorRes == 300

UNITS_PER_USEC == UnitsPerUsec
UNITS_PER_SEC  == 1000000 * UNITS_PER_USEC

\* microsecond parts and sub-microsecond parts of the sampled offsets
UsecSamples  == {0, 2000, 200000}
TenthSamples == {0, 5, 6}

\* the sampled offsets: below one second, and around the whole seconds
Offsets ==
  { sg * (u * UNITS_PER_USEC + t) :
      sg \in {-1, 1}, u \in UsecSamples, t \in TenthSamples }
  \cup { sg * (s * UNITS_PER_SEC + t) :
      sg \in {-1, 1}, s \in 1..MaxSec, t \in TenthSamples }


\* speed factors 1 + k/(10000*FactorRes): the factor 1.0 where the speed is
\* not what is examined
FactorSamples == {0}
\* the factors of the whole range 0.999 .. 1.001, every FactorStep-th one
FactorStep == 50
FactorsWide == { k \in (-10 * FactorRes)..(10 * FactorRes) : k % FactorStep = 0 }

(***************************************************************************)
(* adjtimex/adjtimex.py: constants                                         *)
(***************************************************************************)
ADJ_OFFSET    == 1
ADJ_FREQUENCY == 2
ADJ_MAXERROR  == 4
ADJ_STATUS    == 16
ADJ_SETOFFSET == 256
ADJ_MICRO     == 4096
ADJ_TICK      == 16384

STA_PLL == 1

TIME_OK    == 0
TIME_ERROR == 5

\* the errno of a call made without the capability to set the time, and of
\* a call with an invalid argument
EPERM  == 1
EINVAL == 22

(***************************************************************************)
(* pypll.py: constants                                                     *)
(***************************************************************************)
\* SEC_TO_FREQ = 65536000000 = FREQ_FRAC * PPM (2^16 per ppm, 10^6 ppm)
FREQ_FRAC == 65536
PPM       == 1000000
\* MAX_OFFSET = 0.5 and SYNC_OFFSET = 0.005 seconds, in model units
MAX_OFFSET  == 500000 * UNITS_PER_USEC
SYNC_OFFSET == 5000 * UNITS_PER_USEC

FREE_RUNNING == 0
LOCKED       == 1

\* thresholds a controller may be constructed with: 0.001 s and the defaults
Thresholds == {1000 * UNITS_PER_USEC, SYNC_OFFSET, MAX_OFFSET}

(***************************************************************************)
(* Python built-ins                                                        *)
(***************************************************************************)
Abs(x) == IF x < 0 THEN -x ELSE x

\* int(n/d): truncation toward zero
PyInt(n, d) == IF n >= 0 THEN n \div d ELSE -((-n) \div d)

\* round(n/d) of Python 3 (the interpreter adjtimex.py names): to the nearest
\* integer, a tie to the even one
Round(n, d) ==
  LET q == n \div d
      r == n - q * d
  IN  IF 2 * r < d THEN q
      ELSE IF 2 * r > d THEN q + 1
      ELSE IF q % 2 = 0 THEN q ELSE q + 1

\* a | b on 16-bit masks
RECURSIVE BitOrFrom(_, _, _)
BitOrFrom(a, b, bit) ==
  IF bit > 32768 THEN 0
  ELSE (IF (a \div bit) % 2 = 1 \/ (b \div bit) % 2 = 1 THEN bit ELSE 0)
       + BitOrFrom(a, b, 2 * bit)
BitOr(a, b) == BitOrFrom(a, b, 1)

HasBit(m, bit) == (m \div bit) % 2 = 1

(***************************************************************************)
(* adjtimex/adjtimex.py: structures                                        *)
(***************************************************************************)
Timeval(sec, usec) == [tv_sec |-> sec, tv_usec |-> usec]

\* Timex(**kw): a ctypes structure, every field not given is zero
Timex0 ==
  [modes |-> 0, offset |-> 0, freq |-> 0, maxerror |-> 0, status |-> 0,
   time |-> Timeval(0, 0), tick |-> 0]

(***************************************************************************)
(* The kernel behind _clib.adjtimex: the clock-discipline state, and what  *)
(* one call does to it.  A call either fails (returns -1 and sets errno,   *)
(* changing nothing) or applies the fields selected by modes, fills the    *)
(* structure with the current values and returns a clock state.            *)
(***************************************************************************)
\* Of that state the model keeps the fields the controller reads back or
\* whose value outlives a call in a way the controller depends on: status,
\* freq and tick.
KernelOk   == { [res |-> TIME_OK, errno |-> 0] }
KernelFail == { [res |-> -1, errno |-> EPERM] }
KernelOutcomes == KernelOk \cup KernelFail

\* every answer of the C function: a clock state TIME_OK .. TIME_ERROR, or -1
\* with an errno
KernelOkAll   == { [res |-> r, errno |-> 0] : r \in TIME_OK..TIME_ERROR }
KernelFailAll == { [res |-> -1, errno |-> e] : e \in {EPERM, EINVAL} }
KernelOutcomesAll == KernelOkAll \cup KernelFailAll

KernelApply(k, tx) ==
  [status |-> IF HasBit(tx.modes, ADJ_STATUS) THEN tx.status ELSE k.status,
   freq   |-> IF HasBit(tx.modes, ADJ_FREQUENCY) THEN tx.freq ELSE k.freq,
   tick   |-> IF HasBit(tx.modes, ADJ_TICK) THEN tx.tick ELSE k.tick]

\* the structure as the kernel writes it back
KernelReadBack(k, tx) ==
  [tx EXCEPT !.freq = k.freq, !.status = k.status, !.tick = k.tick]

\* variant: every return value but TIME_OK is taken as a failure
adjtimex_RaiseOnNonzero(tx, k, out) ==
  IF out.res # TIME_OK
    THEN [kernel |-> IF out.res = -1 THEN k ELSE KernelApply(k, tx),
          timex |-> tx, res |-> out.res, errno |-> out.errno,
          raised |-> [type |-> "EnvironmentError", errno |-> out.errno],
          ret |-> 0]
    ELSE LET k2 == KernelApply(k, tx)
         IN  [kernel |-> k2, timex |-> KernelReadBack(k2, tx), res |-> out.res,
              errno |-> out.errno,
              raised |-> [type |-> "None", errno |-> 0],
              ret |-> out.res]

\* adjtimex(timex): one kernel call; raises EnvironmentError(errno) when the
\* call returns -1, returns the kernel's value otherwise
adjtimex(tx, k, out) ==
  IF out.res = -1
    THEN [kernel |-> k, timex |-> tx, res |-> out.res, errno |-> out.errno,
          raised |-> [type |-> "EnvironmentError", errno |-> out.errno],
          ret |-> 0]
    ELSE LET k2 == KernelApply(k, tx)
         IN  [kernel |-> k2, timex |-> KernelReadBack(k2, tx), res |-> out.res,
              errno |-> out.errno,
              raised |-> [type |-> "None", errno |-> 0],
              ret |-> out.res]

NoError == [type |-> "None", errno |-> 0]

\* one entry of the call log of an invocation: the structure passed, the
\* structure after the call, the kernel's return value and errno, and
\* adjtimex's outcome
CallEntry(tx, a) ==
  [timex |-> tx, back |-> a.timex, res |-> a.res, errno |-> a.errno,
   raised |-> a.raised, ret |-> a.ret]

\* Statements "adjtimex.adjtimex(reqs[1]); adjtimex.adjtimex(reqs[2]); ..."
\* executed in order from kernel state k; outs[i] is what the kernel answers
\* to the i-th call.  An exception ends the sequence.  Answers(n) are the
\* answers the kernel can give to a run of at most n calls: every answer but
\* the last is a success, and fewer than n answers end in a failure.
RECURSIVE Answers(_)
Answers(n) ==
  IF n = 0 THEN { <<>> }
  ELSE { <<f>> : f \in KernelFail }
       \cup { <<o>> \o rest : o \in KernelOk, rest \in Answers(n - 1) }

RECURSIVE RunFrom(_, _, _, _, _)
RunFrom(reqs, k, outs, i, log) ==
  IF i > Len(reqs) THEN [kernel |-> k, calls |-> log, raised |-> NoError]
  ELSE LET a == adjtimex(reqs[i], k, outs[i])
           log2 == Append(log, CallEntry(reqs[i], a))
       IN  IF a.raised.type # "None"
             THEN [kernel |-> a.kernel, calls |-> log2, raised |-> a.raised]
             ELSE RunFrom(reqs, a.kernel, outs, i + 1, log2)

\* variant: a failed call is made a second time before the error is raised
Run_Retry(reqs, k, outs) ==
  LET r == RunFrom(reqs, k, outs, 1, <<>>)
  IN  IF r.raised.type = "None" THEN r
      ELSE [r EXCEPT !.calls = Append(r.calls, r.calls[Len(r.calls)])]

Run(reqs, k, outs) == RunFrom(reqs, k, outs, 1, <<>>)

(***************************************************************************)
(* pypll.py: class PyPLL                                                   *)
(***************************************************************************)
NoObject == [state |-> -1, max_offset |-> -1]

\* variant: the assertion is not evaluated
PyPLL_init_NoAssert(max_offset, sync_offset) ==
  [raised |-> [type |-> "None", errno |-> 0],
   obj |-> [state |-> FREE_RUNNING, max_offset |-> max_offset]]

\* __init__: the result of PyPLL(max_offset, sync_offset)
PyPLL_init(max_offset, sync_offset) ==
  IF max_offset >= sync_offset
    THEN [raised |-> [type |-> "None", errno |-> 0],
          obj |-> [state |-> FREE_RUNNING, max_offset |-> max_offset]]
    ELSE [raised |-> [type |-> "AssertionError", errno |-> 0],
          obj |-> NoObject]

\* variant: the lock test comes before the unlock test
NextState_SyncFirst(self, offset) ==
  IF Abs(offset) < SYNC_OFFSET THEN LOCKED
  ELSE IF Abs(offset) > self.max_offset THEN FREE_RUNNING
  ELSE self.state

\* variant: an offset that is not below SYNC_OFFSET unlocks
NextState_NoHysteresis(self, offset) ==
  IF Abs(offset) > self.max_offset THEN FREE_RUNNING
  ELSE IF Abs(offset) < SYNC_OFFSET THEN LOCKED
  ELSE FREE_RUNNING

\* process_offset, lines 76-79: the state after the threshold test
NextState(self, offset) ==
  IF Abs(offset) > self.max_offset THEN FREE_RUNNING
  ELSE IF Abs(offset) < SYNC_OFFSET THEN LOCKED
  ELSE self.state

\* the modes the methods pass
TIMESTEP_MODES   == BitOr(ADJ_SETOFFSET, ADJ_MICRO)
SET_OFFSET_MODES == BitOr(BitOr(ADJ_OFFSET, ADJ_STATUS), BitOr(ADJ_MICRO, ADJ_MAXERROR))
SET_SPEED_MODES  == BitOr(BitOr(ADJ_FREQUENCY, ADJ_TICK), ADJ_STATUS)

\* variant: only the first of the two status calls
clear_time_state_Once ==
  << [Timex0 EXCEPT !.modes = ADJ_STATUS, !.status = STA_PLL] >>

\* variant: a third call reads the state back
clear_time_state_Reread ==
  << [Timex0 EXCEPT !.modes = ADJ_STATUS, !.status = STA_PLL],
     [Timex0 EXCEPT !.modes = ADJ_STATUS],
     [Timex0 EXCEPT !.modes = 0] >>

\* variant: the two calls in the other order
clear_time_state_Swapped ==
  << [Timex0 EXCEPT !.modes = ADJ_STATUS],
     [Timex0 EXCEPT !.modes = ADJ_STATUS, !.status = STA_PLL] >>

\* variant: both calls pass status 0
clear_time_state_ClearTwice ==
  << [Timex0 EXCEPT !.modes = ADJ_STATUS],
     [Timex0 EXCEPT !.modes = ADJ_STATUS] >>

\* variant: the second call repeats the first
clear_time_state_NoClear ==
  << [Timex0 EXCEPT !.modes = ADJ_STATUS, !.status = STA_PLL],
     [Timex0 EXCEPT !.modes = ADJ_STATUS, !.status = STA_PLL] >>

\* clear_time_state: the two structures it passes to adjtimex
clear_time_state ==
  << [Timex0 EXCEPT !.modes = ADJ_STATUS, !.status = STA_PLL],
     [Timex0 EXCEPT !.modes = ADJ_STATUS] >>

\* variant: seconds_int = int(microseconds / 1000000.0), a truncation
timestep_TruncDiv(seconds) ==
  LET microseconds == Round(seconds, UNITS_PER_USEC)
      seconds_int  == PyInt(microseconds, 1000000)
      usec         == microseconds - (seconds_int * 1000000)
  IN  << [Timex0 EXCEPT !.modes = TIMESTEP_MODES,
                        !.time = Timeval(seconds_int, usec)] >>

\* variant: seconds_int = int(seconds), taken from the float argument
timestep_IntSeconds(seconds) ==
  LET microseconds == Round(seconds, UNITS_PER_USEC)
      seconds_int  == PyInt(seconds, UNITS_PER_SEC)
      usec         == microseconds - (seconds_int * 1000000)
  IN  << [Timex0 EXCEPT !.modes = TIMESTEP_MODES,
                        !.time = Timeval(seconds_int, usec)] >>

\* timestep(seconds): the structure it passes to adjtimex
timestep(seconds) ==
  LET microseconds == Round(seconds, UNITS_PER_USEC)
      seconds_int  == microseconds \div 1000000
      usec         == microseconds - (seconds_int * 1000000)
  IN  << [Timex0 EXCEPT !.modes = TIMESTEP_MODES,
                        !.time = Timeval(seconds_int, usec)] >>

\* variant: the status is not part of the request
set_offset_NoStatus(offset) ==
  LET offset_us == PyInt(offset, UNITS_PER_USEC)
  IN  << [Timex0 EXCEPT
            !.modes = BitOr(ADJ_OFFSET, BitOr(ADJ_MICRO, ADJ_MAXERROR)),
            !.offset = offset_us,
            !.maxerror = Abs(offset_us)] >>

\* set_offset(offset): the structure it passes to adjtimex
set_offset(offset) ==
  LET offset_us == PyInt(offset, UNITS_PER_USEC)
  IN  << [Timex0 EXCEPT
            !.modes = SET_OFFSET_MODES,
            !.offset = offset_us,
            !.maxerror = Abs(offset_us),
            !.status = STA_PLL] >>

\* variant: tick = int(factor*10000), without the + 0.5
set_speed_TruncTick(k) ==
  LET S    == FactorRes
      tick == PyInt(10000 * S + k, S)
      rnum == 10000 * S + k - tick * S
      freq == Round(rnum * (FREQ_FRAC * (PPM \div 10000)), S)
  IN  << [Timex0 EXCEPT
            !.modes = SET_SPEED_MODES,
            !.freq = freq, !.tick = tick, !.status = STA_PLL] >>

\* set_speed(factor), factor = 1 + k/(10000*S) = (10000*S + k)/(10000*S)
\* with S = FactorRes.
\*   tick = int(factor*10000 + 0.5)        = int((2*(10000*S + k) + S)/(2*S))
\*   remainder = factor - tick/10000.0     = (10000*S + k - tick*S)/(10000*S)
\*   freq = int(round(remainder * SEC_TO_FREQ))
set_speed(k) ==
  LET S    == FactorRes
      tick == PyInt(2 * (10000 * S + k) + S, 2 * S)
      rnum == 10000 * S + k - tick * S
      freq == Round(rnum * (FREQ_FRAC * (PPM \div 10000)), S)
  IN  << [Timex0 EXCEPT
            !.modes = SET_SPEED_MODES,
            !.freq = freq, !.tick = tick, !.status = STA_PLL] >>

\* get_speed: the structure it passes to adjtimex
get_speed == << [Timex0 EXCEPT !.modes = 0] >>

\* get_speed, line 150: speed = tick/10000 + freq/SEC_TO_FREQ, returned as
\* the numerator of (speed - 1) over SEC_TO_FREQ
SpeedOf(tx) == (tx.tick - 10000) * (FREQ_FRAC * (PPM \div 10000)) + tx.freq

(***************************************************************************)
(* State                                                                   *)
(***************************************************************************)
\* pll:    the controller object, [state, max_offset], or NoObject
\* ctor:   the arguments of the last PyPLL(...) call (__init__ does not store
\*         sync_offset)
\* kernel: the kernel's clock-discipline state
\* op:     the last invocation: name, argument, object before, call log,
\*         exception raised, value returned
VARIABLES pll, ctor, kernel, op

vars == <<pll, ctor, kernel, op>>

NoOp ==
  [name |-> "none", arg |-> 0, pre |-> NoObject, calls |-> <<>>,
   raised |-> NoError, ret |-> 0]

Init ==
  /\ pll = NoObject
  /\ ctor = [max_offset |-> 0, sync_offset |-> 0]
  /\ kernel \in { [status |-> s, freq |-> 0, tick |-> 10000] : s \in {0, STA_PLL} }
  /\ op = NoOp

(***************************************************************************)
(* Operations                                                              *)
(***************************************************************************)
\* pll = PyPLL(max_offset, sync_offset)
Construct(max_offset, sync_offset) ==
  /\ pll = NoObject
  /\ LET r == PyPLL_init(max_offset, sync_offset)
     IN  /\ pll' = r.obj
         /\ op' = [NoOp EXCEPT !.name = "__init__", !.raised = r.raised]
  /\ ctor' = [max_offset |-> max_offset, sync_offset |-> sync_offset]
  /\ UNCHANGED kernel

\* variant: the state is restored when a kernel call fails
process_offset_Rollback(offset) ==
  /\ pll # NoObject
  /\ LET st   == NextState(pll, offset)
         reqs == IF st = FREE_RUNNING
                   THEN clear_time_state \o timestep(offset)
                   ELSE set_offset(offset)
     IN  \E outs \in Answers(Len(reqs)) :
           LET r == Run(reqs, kernel, outs)
           IN  /\ pll' = IF r.raised.type = "None"
                           THEN [pll EXCEPT !.state = st] ELSE pll
               /\ kernel' = r.kernel
               /\ op' = [name |-> "process_offset", arg |-> offset, pre |-> pll,
                         calls |-> r.calls, raised |-> r.raised, ret |-> 0]
  /\ UNCHANGED ctor

\* pll.process_offset(offset)
process_offset(offset) ==
  /\ pll # NoObject
  /\ LET st   == NextState(pll, offset)
         reqs == IF st = FREE_RUNNING
                   THEN clear_time_state \o timestep(offset)
                   ELSE set_offset(offset)
     IN  \E outs \in Answers(Len(reqs)) :
           LET r == Run(reqs, kernel, outs)
           IN  /\ pll' = [pll EXCEPT !.state = st]
               /\ kernel' = r.kernel
               /\ op' = [name |-> "process_offset", arg |-> offset, pre |-> pll,
                         calls |-> r.calls, raised |-> r.raised, ret |-> 0]
  /\ UNCHANGED ctor

\* variant: a failed kernel call unlocks the controller
Method_UnlockOnError(name, arg, reqs) ==
  /\ pll # NoObject
  /\ \E outs \in Answers(Len(reqs)) :
       LET r == Run(reqs, kernel, outs)
       IN  /\ kernel' = r.kernel
           /\ pll' = IF r.raised.type = "None" THEN pll
                     ELSE [pll EXCEPT !.state = FREE_RUNNING]
           /\ op' = [name |-> name, arg |-> arg, pre |-> pll,
                     calls |-> r.calls, raised |-> r.raised,
                     ret |-> IF name = "get_speed" /\ r.raised.type = "None"
                               THEN SpeedOf(r.calls[1].back) ELSE 0]
  /\ UNCHANGED ctor

\* a method that only issues kernel calls
Method(name, arg, reqs) ==
  /\ pll # NoObject
  /\ \E outs \in Answers(Len(reqs)) :
       LET r == Run(reqs, kernel, outs)
       IN  /\ kernel' = r.kernel
           /\ op' = [name |-> name, arg |-> arg, pre |-> pll,
                     calls |-> r.calls, raised |-> r.raised,
                     ret |-> IF name = "get_speed" /\ r.raised.type = "None"
                               THEN SpeedOf(r.calls[1].back) ELSE 0]
  /\ UNCHANGED <<pll, ctor>>

ClearTimeState == Method("clear_time_state", 0, clear_time_state)
TimeStep(seconds) == Method("timestep", seconds, timestep(seconds))
SetOffset(offset) == Method("set_offset", offset, set_offset(offset))
SetSpeed(k) == Method("set_speed", k, set_speed(k))
GetSpeed == Method("get_speed", 0, get_speed)

Next ==
  \/ \E m \in Thresholds, s \in Thresholds : Construct(m, s)
  \/ \E o \in Offsets : process_offset(o)
  \/ ClearTimeState
  \/ \E o \in Offsets : TimeStep(o)
  \/ \E o \in Offsets : SetOffset(o)
  \/ \E k \in FactorSamples : SetSpeed(k)
  \/ GetSpeed

Spec == Init /\ [][Next]_vars

(***************************************************************************)
(* Saving and restoring the clock speed, as main() does: a default         *)
(* controller, set_speed with any factor of the range, get_speed.          *)
(***************************************************************************)
ConstructDefault == Construct(MAX_OFFSET, SYNC_OFFSET)

NextSpeed ==
  \/ ConstructDefault
  \/ \E k \in FactorsWide : SetSpeed(k)
  \/ GetSpeed

SpecSpeed == Init /\ [][NextSpeed]_vars

(***************************************************************************)
(* The wrapper on its own: adjtimex.adjtimex(timex) called directly with   *)
(* the structures the methods of PyPLL build, the kernel giving any answer. *)
(***************************************************************************)
DirectRequests ==
  { clear_time_state[1], clear_time_state[2], get_speed[1] }
  \cup { timestep(o)[1] : o \in Offsets }
  \cup { set_offset(o)[1] : o \in Offsets }
  \cup { set_speed(k)[1] : k \in FactorSamples }

\* res = adjtimex.adjtimex(timex)
AdjtimexCall(tx, out) ==
  /\ LET a == adjtimex(tx, kernel, out)
     IN  /\ kernel' = a.kernel
         /\ op' = [name |-> "adjtimex", arg |-> 0, pre |-> pll,
                   calls |-> << CallEntry(tx, a) >>, raised |-> a.raised,
                   ret |-> a.ret]
  /\ UNCHANGED <<pll, ctor>>

NextAdj == \E tx \in DirectRequests, out \in KernelOutcomesAll : AdjtimexCall(tx, out)

SpecAdj == Init /\ [][NextAdj]_vars

(***************************************************************************)
(* Properties                                                              *)
(***************************************************************************)
IsProcessOffset == op.name = "process_offset"
Raised == op.raised.type # "None"

\* the entries of the call log that are step-mode calls
StepCalls == { i \in 1..Len(op.calls) : HasBit(op.calls[i].timex.modes, ADJ_SETOFFSET) }
\* the argument of the last invocation in microseconds, rounded to nearest
ArgMicroseconds == Round(op.arg, UNITS_PER_USEC)

\* C1 (P1): after process_offset(offset) with abs(offset) > max_offset the
\* state is FreeRunning, whatever the state before and whatever the thresholds.
C1_UnlockAboveMax ==
  (IsProcessOffset /\ Abs(op.arg) > op.pre.max_offset) => pll.state = FREE_RUNNING

C1_Witness ==
  /\ IsProcessOffset
  /\ Abs(op.arg) > op.pre.max_offset
  /\ op.pre.state = LOCKED
  /\ pll.state = FREE_RUNNING

\* C2 (P2): after process_offset(offset) with abs(offset) below the
\* sync_offset passed at construction, the state is Locked.
C2_LockBelowSyncArg ==
  (IsProcessOffset /\ Abs(op.arg) < ctor.sync_offset) => pll.state = LOCKED

\* C3 (P3): process_offset(offset) with sync_offset <= abs(offset) <=
\* max_offset, for the thresholds passed at construction, leaves the state as
\* it was.
C3_DeadZoneKeepsState ==
  (/\ IsProcessOffset
   /\ ctor.sync_offset <= Abs(op.arg)
   /\ Abs(op.arg) <= ctor.max_offset) => pll.state = op.pre.state

\* C4 (P4): a process_offset that ends in FreeRunning without a failed kernel
\* call has issued exactly three calls: two status-only calls, then one
\* step-mode call (set-offset | microseconds); none of them submits an offset
\* to the PLL.
C4_StepSequence ==
  (IsProcessOffset /\ pll.state = FREE_RUNNING /\ ~Raised) =>
     /\ Len(op.calls) = 3
     /\ op.calls[1].timex.modes = ADJ_STATUS
     /\ op.calls[2].timex.modes = ADJ_STATUS
     /\ op.calls[3].timex.modes = ADJ_SETOFFSET + ADJ_MICRO
     /\ \A i \in 1..3 : ~HasBit(op.calls[i].timex.modes, ADJ_OFFSET)

C4_Witness ==
  /\ IsProcessOffset /\ pll.state = FREE_RUNNING /\ ~Raised
  /\ op.pre.state = LOCKED
  /\ Len(op.calls) = 3

\* C5: the timeval of every step-mode call satisfies
\* seconds_int*1000000 + usec = round(offset*1000000), and seconds_int is the
\* floor of round(offset*1000000)/1000000.
C5_StepEncoding ==
  \A i \in StepCalls :
     LET tv == op.calls[i].timex.time
     IN  /\ tv.tv_sec * 1000000 + tv.tv_usec = ArgMicroseconds
         /\ tv.tv_sec * 1000000 <= ArgMicroseconds
         /\ ArgMicroseconds < (tv.tv_sec + 1) * 1000000

C5_Witness ==
  \E i \in StepCalls :
     /\ op.arg < 0
     /\ op.arg % UNITS_PER_USEC # 0
     /\ op.calls[i].timex.time.tv_sec = -2
     /\ op.calls[i].timex.time.tv_usec # 0

\* C6 as stated: the usec of a step-mode call is in [0, 1000000) when
\* offset >= 0 and in (-1000000, 0] when offset < 0.
C6_RemainderSignOfOffset ==
  \A i \in StepCalls :
     LET usec == op.calls[i].timex.time.tv_usec
     IN  /\ op.arg >= 0 => (0 <= usec /\ usec < 1000000)
         /\ op.arg < 0 => (-1000000 < usec /\ usec <= 0)

\* C6 amended: the usec of a step-mode call is in [0, 1000000) for every
\* offset, negative ones included.
C6_RemainderNonNegative ==
  \A i \in StepCalls :
     LET usec == op.calls[i].timex.time.tv_usec
     IN  0 <= usec /\ usec < 1000000

C6_Witness ==
  \E i \in StepCalls :
     /\ op.arg < 0
     /\ op.calls[i].timex.time.tv_usec > 0
     /\ op.calls[i].timex.time.tv_sec = -1

\* C7 (P5): a process_offset that ends in Locked issues exactly one kernel
\* call, with modes set-offset | set-status | microseconds | set-maxerror and
\* the status equal to the PLL-enable bit; so no status-only and no step-mode
\* call.
C7_PllCallShape ==
  (IsProcessOffset /\ pll.state = LOCKED) =>
     /\ Len(op.calls) = 1
     /\ op.calls[1].timex.modes = ADJ_OFFSET + ADJ_STATUS + ADJ_MICRO + ADJ_MAXERROR
     /\ op.calls[1].timex.status = STA_PLL
     /\ StepCalls = {}

C7_Witness ==
  /\ IsProcessOffset /\ pll.state = LOCKED
  /\ op.pre.state = FREE_RUNNING
  /\ Len(op.calls) = 1
  /\ ~Raised

\* C8 (P5): the call of a process_offset that ends in Locked carries
\* maxerror = abs(round(offset*1000000)).
C8_MaxErrorRounded ==
  (IsProcessOffset /\ pll.state = LOCKED) =>
     \A i \in 1..Len(op.calls) :
        op.calls[i].timex.maxerror = Abs(ArgMicroseconds)

\* C9: PyPLL(max_offset, sync_offset) with sync_offset > max_offset fails:
\* no object, no kernel call; with max_offset >= sync_offset it yields a
\* controller in FreeRunning.
C9_ConstructionCheck ==
  op.name = "__init__" =>
     /\ ctor.sync_offset > ctor.max_offset =>
          (Raised /\ pll = NoObject /\ op.calls = <<>>)
     /\ ctor.max_offset >= ctor.sync_offset =>
          (~Raised /\ pll.state = FREE_RUNNING /\ pll.max_offset = ctor.max_offset
           /\ op.calls = <<>>)

C9_Witness ==
  /\ op.name = "__init__"
  /\ ctor.sync_offset > ctor.max_offset
  /\ op.raised.type = "AssertionError"

\* C10: a kernel call that fails is the last call of its method invocation,
\* and the invocation ends with that call's error.
C10_FailureEndsInvocation ==
  \A i \in 1..Len(op.calls) :
     op.calls[i].res = -1 =>
        /\ i = Len(op.calls)
        /\ op.raised.type = "EnvironmentError"
        /\ op.raised.errno = op.calls[i].errno

C10_Witness ==
  /\ IsProcessOffset
  /\ Len(op.calls) = 2
  /\ op.calls[1].res # -1
  /\ op.calls[2].res = -1
  /\ Raised

\* C11: an adjtimex(params) invocation is one kernel call; it raises, with the
\* kernel's errno, exactly when the kernel returns -1, and returns every other
\* value of the kernel unchanged, TIME_ERROR (5) included.
C11_OutcomeMapping ==
  op.name = "adjtimex" =>
     /\ Len(op.calls) = 1
     /\ (op.raised.type # "None") <=> (op.calls[1].res = -1)
     /\ op.calls[1].res = -1 =>
          (op.raised.type = "EnvironmentError" /\ op.raised.errno = op.calls[1].errno)
     /\ op.calls[1].res # -1 => op.ret = op.calls[1].res

C11_Witness ==
  /\ op.name = "adjtimex"
  /\ op.calls[1].res = TIME_ERROR
  /\ op.raised.type = "None"
  /\ op.ret = TIME_ERROR

\* C12 (P6): when the kernel holds the tick and freq that set_speed(factor)
\* writes, for a factor in 0.999 .. 1.001, a successful get_speed() returns
\* tick/10000 + freq/SEC_TO_FREQ within 1e-9 of factor, where tick is an
\* integer nearest to factor*10000 and freq an integer nearest to
\* (factor - tick/10000) * SEC_TO_FREQ.
\*   With S = FactorRes, factor = 1 + k/(10000*S), td = tick - 10000:
\*   factor*10000 - tick = rnum/S with rnum = k - td*S;
\*   (get_speed() - factor) * SEC_TO_FREQ = num/S with
\*   num = (ret - td*SEC_TO_FREQ/10000)*S - rnum*SEC_TO_FREQ/10000.
C12_SpeedRoundTrip ==
  (op.name = "get_speed" /\ op.raised.type = "None") =>
     \A k \in FactorsWide :
        LET enc == set_speed(k)[1]
        IN  (kernel.tick = enc.tick /\ kernel.freq = enc.freq) =>
              LET S    == FactorRes
                  unit == FREQ_FRAC * (PPM \div 10000)
                  td   == kernel.tick - 10000
                  rnum == k - td * S
                  freq == op.ret - td * unit
                  num  == freq * S - rnum * unit
              IN  /\ 2 * Abs(rnum) <= S
                  /\ freq = kernel.freq
                  /\ 2 * Abs(num) <= S
                  /\ Abs(num) < 100000
                  /\ 1000 * Abs(num) < FREQ_FRAC * S

C12_Witness ==
  /\ op.name = "get_speed" /\ op.raised.type = "None"
  /\ kernel.tick = 10001
  /\ kernel.freq < 0
  /\ kernel.freq % 2 = 1
  /\ op.ret # 0

\* C13: the first process_offset on a newly constructed controller issues a
\* step-mode kernel call, whatever the offset (no kernel call failing).
C13_FirstCallSteps ==
  [][ (/\ op.name = "__init__" /\ op.raised.type = "None"
       /\ op'.name = "process_offset" /\ op'.raised.type = "None")
      => \E i \in 1..Len(op'.calls) :
            HasBit(op'.calls[i].timex.modes, ADJ_SETOFFSET) ]_vars

\* the controller actions of the call-count bound
IsControllerAction == op.name \in {"process_offset", "set_speed", "get_speed"}

\* C14 as stated: an invocation of process_offset, set_speed or get_speed
\* performs at most two kernel calls.
C14_AtMostTwoCalls == IsControllerAction => Len(op.calls) <= 2

\* C14 amended: an invocation of process_offset, set_speed or get_speed
\* performs at most three kernel calls.
C14_AtMostThreeCalls == IsControllerAction => Len(op.calls) <= 3

C14_Witness ==
  /\ IsProcessOffset
  /\ Len(op.calls) = 3
  /\ op.calls[3].res = -1

\* the invocations that run clear_time_state: the FreeRunning branch of
\* process_offset
ClearsTimeState == IsProcessOffset /\ pll.state = FREE_RUNNING

\* C15 as stated: the first status call writes a status without PLL-enable,
\* and the second does not change the status the first one left.
C15_DisableThenNoOp ==
  ClearsTimeState =>
     /\ Len(op.calls) >= 1 => ~HasBit(op.calls[1].timex.status, STA_PLL)
     /\ (Len(op.calls) >= 2 /\ op.calls[2].res # -1) =>
           op.calls[2].back.status = op.calls[1].back.status

\* C15 amended: the first status call writes the PLL-enable bit (the kernel
\* then has it set), and the second is a status-only call that writes status
\* 0: it clears the bit, changing the status the first call left.
C15_EnableThenClear ==
  ClearsTimeState =>
     /\ Len(op.calls) >= 1 =>
          /\ op.calls[1].timex.modes = ADJ_STATUS
          /\ op.calls[1].timex.status = STA_PLL
          /\ op.calls[1].res # -1 => HasBit(op.calls[1].back.status, STA_PLL)
     /\ Len(op.calls) >= 2 =>
          /\ op.calls[2].timex.modes = ADJ_STATUS
          /\ op.calls[2].timex.status = 0
          /\ op.calls[2].res # -1 =>
               /\ ~HasBit(op.calls[2].back.status, STA_PLL)
               /\ op.calls[2].back.status # op.calls[1].back.status

C15_Witness ==
  /\ ClearsTimeState
  /\ op.pre.state = LOCKED
  /\ Len(op.calls) >= 2
  /\ op.calls[2].res # -1
  /\ op.calls[1].back.status = STA_PLL
  /\ op.calls[2].back.status = 0

\* the FreeRunning branch in which the first kernel call succeeded and the
\* second failed
PartialFailure ==
  /\ ClearsTimeState
  /\ Len(op.calls) >= 2
  /\ op.calls[1].res # -1
  /\ op.calls[2].res = -1

\* C16 as stated: after the first call succeeded and the second failed, the
\* failure is raised, no step was applied and the kernel's PLL bit is clear.
C16_WindowPllDisabled ==
  PartialFailure =>
     /\ op.raised.type = "EnvironmentError"
     /\ StepCalls = {}
     /\ ~HasBit(kernel.status, STA_PLL)

\* C16 amended: after the first call succeeded and the second failed, the
\* failure is raised, no step was applied and the kernel's PLL bit is set
\* (by the first call).
C16_WindowPllEnabled ==
  PartialFailure =>
     /\ op.raised.type = "EnvironmentError"
     /\ op.raised.errno = op.calls[2].errno
     /\ Len(op.calls) = 2
     /\ StepCalls = {}
     /\ HasBit(kernel.status, STA_PLL)

C16_Witness ==
  /\ PartialFailure
  /\ op.pre.state = LOCKED
  /\ kernel.status = STA_PLL

\* C17: from Locked, a process_offset(offset) issues a step-mode call only if
\* abs(offset) > max_offset; with abs(offset) <= max_offset the state stays
\* Locked and the call issues no step-mode and no status-only call.
C17_NoStepOnceLocked ==
  [][ (pll.state = LOCKED /\ op'.name = "process_offset") =>
        LET steps == { i \in 1..Len(op'.calls) :
                         HasBit(op'.calls[i].timex.modes, ADJ_SETOFFSET) }
            clears == { i \in 1..Len(op'.calls) :
                         op'.calls[i].timex.modes = ADJ_STATUS }
        IN  /\ steps # {} => Abs(op'.arg) > pll.max_offset
            /\ Abs(op'.arg) <= pll.max_offset =>
                 (pll'.state = LOCKED /\ steps = {} /\ clears = {}) ]_vars

C17_Witness ==
  /\ IsProcessOffset
  /\ op.pre.state = LOCKED
  /\ SYNC_OFFSET <= Abs(op.arg)
  /\ Abs(op.arg) <= op.pre.max_offset
  /\ pll.state = LOCKED
  /\ Len(op.calls) = 1

\* C18: set_speed, get_speed, timestep, set_offset and clear_time_state leave
\* the controller's state and max_offset as they are, whether their kernel
\* calls succeed or fail; process_offset leaves max_offset as it is.
C18_OnlyProcessOffsetMutates ==
  [][ /\ op'.name \in {"set_speed", "get_speed", "timestep", "set_offset",
                       "clear_time_state"} => pll' = pll
      /\ op'.name = "process_offset" => pll'.max_offset = pll.max_offset ]_vars

C18_Witness ==
  /\ op.name = "set_speed"
  /\ op.raised.type = "EnvironmentError"
  /\ op.pre.state = LOCKED
  /\ pll = op.pre

\* C19: when a kernel call of process_offset(offset) fails, the state after
\* the invocation is the one the thresholds give for offset: FreeRunning
\* above max_offset, else Locked below SYNC_OFFSET, else the state before.
C19_TransitionNotRolledBack ==
  (IsProcessOffset /\ Raised) =>
     /\ Abs(op.arg) > op.pre.max_offset => pll.state = FREE_RUNNING
     /\ (Abs(op.arg) <= op.pre.max_offset /\ Abs(op.arg) < SYNC_OFFSET) =>
          pll.state = LOCKED
     /\ (Abs(op.arg) <= op.pre.max_offset /\ Abs(op.arg) >= SYNC_OFFSET) =>
          pll.state = op.pre.state

C19_Witness ==
  /\ IsProcessOffset /\ Raised
  /\ op.pre.state = FREE_RUNNING
  /\ pll.state = LOCKED
  /\ Len(op.calls) = 1
  /\ op.calls[1].res = -1

\* C20: right after a process_offset that completed without failure, the
\* kernel's PLL-enable bit is set exactly when the controller is Locked.
C20_PllBitMirrorsState ==
  (IsProcessOffset /\ ~Raised) =>
     (HasBit(kernel.status, STA_PLL) <=> pll.state = LOCKED)

C20_Witness ==
  /\ IsProcessOffset /\ ~Raised
  /\ op.pre.state = LOCKED
  /\ pll.state = FREE_RUNNING
  /\ Len(op.calls) = 3
  /\ ~HasBit(kernel.status, STA_PLL)
====
